---- MODULE Spec2Model ----
(***************************************************************************)
(* Model of semverbot's Branch/Version inference (BranchHelper.js) and of  *)
(* its JSON file version updater (JSONFileChanger).                        *)
(*                                                                         *)
(* Strings that the code takes apart (branch names, commit-message lines,  *)
(* JSON keys and string values) are sequences of one-character strings,    *)
(* so that split, trim and the semver grammar are computed, not assumed.   *)
(***************************************************************************)
EXTENDS Integers, Sequences, FiniteSets, TLC

VARIABLES
    \* ---- getLastMergedPrefix (BranchHelper.js 90-110)
    pc,                 \* position of the async function
    currentBranchName,  \* line 91
    mergedBranchNames,  \* line 92
    cleanCheck,         \* per branch: state of the isBranchClean promise
    pushState,          \* per branch: state of the getBranchPushTimestamp promise
    pushDate,           \* per branch: the date a fulfilled lookup returned
    firstRejected,      \* the mapped promise that rejected first (Promise.all)
    candidateBranches,  \* lines 93-98, after the sort
    outcome,            \* how getLastMergedPrefix ended
    \* ---- getCommitSubjectVersion (BranchHelper.js 120-131)
    vpc,
    subjectInput,       \* the lines git printed, in original order
    subjectLines,       \* the array the code holds (reversed in place)
    scanIdx,            \* forEach position
    cleanVersion,       \* line 123
    versionOutcome,
    \* ---- updateFiles (JSONFileChanger 17-46)
    upc,
    nFiles,             \* filesData.length
    fileIdx,            \* forEach position in filesData (1-based)
    file,               \* the element of filesData being processed
    fileKeys,           \* line 22 / 26
    keyIdx,             \* position of the per-key forEach
    data,               \* openedFile.data: the in-memory JSON object
    disk,               \* url -> content of the file on disk
    exists,             \* url -> whether the file exists on disk
    diskBefore,         \* disk content of the current target when it was opened
    log,                \* lines given to LogHelper.info, in order
    reads,              \* openedFile.get calls made on the current target
    sets,               \* openedFile.set calls made on the current target
    saveCount,          \* per position: how often openedFile.save() ran
    logMark,            \* Len(log) when the current target was opened
    thrown,             \* calls of LogHelper.throwException
    updateOutcome

prefixVars == <<pc, currentBranchName, mergedBranchNames, cleanCheck,
                pushState, pushDate, firstRejected, candidateBranches, outcome>>
versionVars == <<vpc, subjectInput, subjectLines, scanIdx, cleanVersion, versionOutcome>>
updateVars == <<upc, nFiles, fileIdx, file, fileKeys, keyIdx, data, disk, exists,
                diskBefore, log, reads, sets, saveCount, logMark, thrown, updateOutcome>>
vars == <<prefixVars, versionVars, updateVars>>

----------------------------------------------------------------------------
(* Bounds of the model.                                                    *)
MaxBranches == 3   \* longest list `git branch --contains` prints
MaxTime == 2       \* largest reflog timestamp
MaxLines == 3      \* longest commit message, in lines
MaxFiles == 2      \* longest filesData
MaxKeys == 2       \* longest explicit keys list of a file target

----------------------------------------------------------------------------
(* Generic helpers: JavaScript strings and arrays.                         *)

\* JavaScript null / undefined for string-valued results.
Null == <<"null">>

\* String.prototype.split(sep) for a one-character separator.
RECURSIVE SplitFrom(_, _, _, _)
SplitFrom(s, sep, i, cur) ==
    IF i > Len(s) THEN <<cur>>
    ELSE IF s[i] = sep THEN <<cur>> \o SplitFrom(s, sep, i + 1, <<>>)
    ELSE SplitFrom(s, sep, i + 1, Append(cur, s[i]))

Split(s, sep) == SplitFrom(s, sep, 1, <<>>)

\* Array.prototype.reverse
Reverse(s) == [i \in 1..Len(s) |-> s[Len(s) + 1 - i]]

Range(s) == {s[i] : i \in 1..Len(s)}

\* All sequences over S of length lo..hi
SeqsOf(S, lo, hi) == UNION {[1..n -> S] : n \in lo..hi}

----------------------------------------------------------------------------
(* LogHelper (not part of the sources at hand): throwException raises a    *)
(* fatal ExceptionError carrying the message; it never returns.            *)

ExceptionError(message) == [kind |-> "ExceptionError", msg |-> message, value |-> Null]
TypeError(message) == [kind |-> "TypeError", msg |-> message, value |-> Null]
Returned(value) == [kind |-> "return", msg |-> "", value |-> value]
Running == [kind |-> "none", msg |-> "", value |-> Null]

\* Truthiness of a JavaScript value, given as [t |-> type, s |-> text,
\* o |-> entries].  Objects (arrays and promises included) are always truthy.
JsTruthy(v) ==
    CASE v.t = "string" -> v.s # <<>>
      [] v.t = "number" -> v.s # <<"0">>
      [] v.t = "undefined" -> FALSE
      [] v.t = "null" -> FALSE
      [] OTHER -> TRUE

JsArray == [t |-> "array", s |-> <<>>, o |-> <<>>]
JsPromise == [t |-> "promise", s |-> <<>>, o |-> <<>>]

----------------------------------------------------------------------------
(* getLastMergedPrefix and its helpers.                                    *)

\* The branch names git can print.
BranchNames == { <<"f", "/", "a">>, <<"h", "/", "b", "/", "c">>, <<"d", "e", "v">> }

\* The names HEAD can resolve to
master == <<"m", "a", "s", "t", "e", "r">>
CurrentNames == BranchNames \cup {master}

\* The timestamps a reflog line can carry
Dates == 1..MaxTime

\* Lists git can print: distinct names, at least one line.
BranchLists == {l \in SeqsOf(BranchNames, 1, MaxBranches) :
                   \A i, j \in 1..Len(l) : i # j => l[i] # l[j]}

\* Lines 72-76: what the promise of isBranchClean settles to, given what
\* `git diff <branch> | head -1` did: failed, printed a line, printed nothing.
IsBranchCleanResult(result) ==
    IF result # "err"
    THEN (IF result = "diff" THEN "false" ELSE "true")
    ELSE "rejected"

\* Line 96: the value the filter callback returns is what the async
\* function isBranchClean returns synchronously, a pending promise.
IsBranchCleanCall(name) == JsPromise

\* Lines 94-96: the names that reach .map
FilteredNames(names, current) ==
    SelectSeq(SelectSeq(names, LAMBDA n : n # current),
              LAMBDA n : JsTruthy(IsBranchCleanCall(n)))

\* Mutant of CompareDates: the operands swapped (a descending sort)
CompareDatesDescending(branchA, branchB) == branchB.date - branchA.date

\* Line 98: the comparator of the sort
CompareDates(branchA, branchB) == branchA.date - branchB.date

\* Array.prototype.sort with a comparator (stable).
RECURSIVE InsertSorted(_, _)
InsertSorted(x, s) ==
    IF s = <<>> THEN <<x>>
    ELSE IF CompareDates(Head(s), x) > 0 THEN <<x>> \o s
    ELSE <<Head(s)>> \o InsertSorted(x, Tail(s))

RECURSIVE SortCandidates(_)
SortCandidates(s) ==
    IF s = <<>> THEN <<>>
    ELSE InsertSorted(s[Len(s)], SortCandidates(SubSeq(s, 1, Len(s) - 1)))

\* Lines 100-109: from the sorted candidates to the end of the function.
SelectPrefix(candidates) ==
    IF ~JsTruthy(JsArray)
    THEN ExceptionError("Could not find a suitable merged branch candidate")
    ELSE IF candidates = <<>>
    THEN TypeError("Cannot read property 'name' of undefined")
    ELSE LET splitName == Split(candidates[1].name, "/")
         IN  IF Len(splitName) > 1
             THEN Returned(splitName[1])
             ELSE ExceptionError("Could not extract prefix from last merged branch")

PrefixInit ==
    /\ pc = "start"
    /\ currentBranchName = Null
    /\ mergedBranchNames = <<>>
    /\ cleanCheck = [b \in BranchNames |-> "none"]
    /\ pushState = [b \in BranchNames |-> "none"]
    /\ pushDate = [b \in BranchNames |-> 1]
    /\ firstRejected = Null
    /\ candidateBranches = <<>>
    /\ outcome = Running

\* Line 91, getCurrentBranchName (20-26)
GetCurrentBranchName ==
    /\ pc = "start"
    /\ \/ \E name \in CurrentNames :
             /\ currentBranchName' = name
             /\ pc' = "gotCurrent"
             /\ outcome' = outcome
       \/ /\ outcome' = ExceptionError("Could not get current branch name")
          /\ pc' = "done"
          /\ currentBranchName' = currentBranchName
    /\ UNCHANGED <<mergedBranchNames, cleanCheck, pushState, pushDate,
                   firstRejected, candidateBranches>>
    /\ UNCHANGED <<versionVars, updateVars>>

\* Line 92, getLastMergedBranchesNames (62-69) and
\* getBranchNamesFromCommitHash (36-42)
GetLastMergedBranchesNames ==
    /\ pc = "gotCurrent"
    /\ \/ \E names \in BranchLists :
             /\ mergedBranchNames' = names
             /\ pc' = "gotMerged"
             /\ outcome' = outcome
       \/ /\ outcome' = ExceptionError("Could not find last merged branch")
          /\ pc' = "done"
          /\ mergedBranchNames' = mergedBranchNames
    /\ UNCHANGED <<currentBranchName, cleanCheck, pushState, pushDate,
                   firstRejected, candidateBranches>>
    /\ UNCHANGED <<versionVars, updateVars>>

\* Lines 94-97 up to the await: the filter callback starts one clean check
\* per name other than the current one, and the map callback starts one
\* timestamp lookup per name the filters kept.
StartGather ==
    /\ pc = "gotMerged"
    /\ LET named == SelectSeq(mergedBranchNames, LAMBDA n : n # currentBranchName)
           kept == FilteredNames(mergedBranchNames, currentBranchName)
       IN  /\ cleanCheck' = [b \in BranchNames |->
                                IF b \in Range(named) THEN "pending" ELSE cleanCheck[b]]
           /\ pushState' = [b \in BranchNames |->
                               IF b \in Range(kept) THEN "pending" ELSE pushState[b]]
    /\ pc' = "gathering"
    /\ UNCHANGED <<currentBranchName, mergedBranchNames, pushDate,
                   firstRejected, candidateBranches, outcome>>
    /\ UNCHANGED <<versionVars, updateVars>>

\* isBranchClean (71-77) settles.  Nothing awaits its promise: its value
\* is never read and its rejection is handled by no one, whether it
\* settles before or after getLastMergedPrefix has ended.
IsBranchCleanSettles(b) ==
    /\ cleanCheck[b] = "pending"
    /\ \E result \in {"err", "diff", "nodiff"} :
          cleanCheck' = [cleanCheck EXCEPT ![b] = IsBranchCleanResult(result)]
    /\ UNCHANGED <<pc, currentBranchName, mergedBranchNames, pushState,
                   pushDate, firstRejected, candidateBranches, outcome>>
    /\ UNCHANGED <<versionVars, updateVars>>

\* getBranchPushTimestamp (79-88) settles: a date, or the exception when
\* the reflog is missing or its line does not match.
GetBranchPushTimestampSettles(b) ==
    /\ pushState[b] = "pending"
    /\ \/ \E date \in Dates :
             /\ pushState' = [pushState EXCEPT ![b] = "fulfilled"]
             /\ pushDate' = [pushDate EXCEPT ![b] = date]
             /\ firstRejected' = firstRejected
       \/ /\ pushState' = [pushState EXCEPT ![b] = "rejected"]
          /\ pushDate' = pushDate
          /\ firstRejected' = IF firstRejected = Null THEN b ELSE firstRejected
    /\ UNCHANGED <<pc, currentBranchName, mergedBranchNames, cleanCheck,
                   candidateBranches, outcome>>
    /\ UNCHANGED <<versionVars, updateVars>>

\* Lines 93-98: Promise.all rejects with the first rejection of a mapped promise.
GatherRejected ==
    /\ pc = "gathering"
    /\ firstRejected # Null
    /\ outcome' = ExceptionError("Could not get reflog for branch")
    /\ pc' = "done"
    /\ UNCHANGED <<currentBranchName, mergedBranchNames, cleanCheck,
                   pushState, pushDate, firstRejected, candidateBranches>>
    /\ UNCHANGED <<versionVars, updateVars>>

\* Lines 93-109: Promise.all fulfils once every mapped promise has; the
\* results keep the order of the names, are sorted, and the first is taken.
GatherFulfilled ==
    /\ pc = "gathering"
    /\ LET kept == FilteredNames(mergedBranchNames, currentBranchName)
           gathered == [i \in 1..Len(kept) |-> [name |-> kept[i], date |-> pushDate[kept[i]]]]
       IN  /\ \A i \in 1..Len(kept) : pushState[kept[i]] = "fulfilled"
           /\ candidateBranches' = SortCandidates(gathered)
           /\ outcome' = SelectPrefix(SortCandidates(gathered))
    /\ pc' = "done"
    /\ UNCHANGED <<currentBranchName, mergedBranchNames, cleanCheck,
                   pushState, pushDate, firstRejected>>
    /\ UNCHANGED <<versionVars, updateVars>>

PrefixNext ==
    \/ GetCurrentBranchName
    \/ GetLastMergedBranchesNames
    \/ StartGather
    \/ \E b \in BranchNames : IsBranchCleanSettles(b)
    \/ \E b \in BranchNames : GetBranchPushTimestampSettles(b)
    \/ GatherRejected
    \/ GatherFulfilled

----------------------------------------------------------------------------
(* semver.clean and semver.valid (strict parsing; the lines of the model   *)
(* carry no prerelease tag).                                               *)

Digits == {"0", "1", "2", "3", "4", "5", "6", "7", "8", "9"}

\* String.prototype.trim
RECURSIVE TrimLeft(_)
TrimLeft(s) == IF s # <<>> /\ Head(s) = " " THEN TrimLeft(Tail(s)) ELSE s

RECURSIVE TrimRight(_)
TrimRight(s) ==
    IF s # <<>> /\ s[Len(s)] = " " THEN TrimRight(SubSeq(s, 1, Len(s) - 1)) ELSE s

Trim(s) == TrimRight(TrimLeft(s))

\* replace(/^[=v]+/, '')
RECURSIVE StripEqualsV(_)
StripEqualsV(s) ==
    IF s # <<>> /\ Head(s) \in {"=", "v"} THEN StripEqualsV(Tail(s)) ELSE s

\* 0|[1-9]\d*
IsNumericIdentifier(s) ==
    /\ Len(s) >= 1
    /\ \A i \in 1..Len(s) : s[i] \in Digits
    /\ Len(s) > 1 => s[1] # "0"

\* [0-9A-Za-z-]+ over the characters of the model
IsBuildIdentifier(s) ==
    /\ Len(s) >= 1
    /\ \A i \in 1..Len(s) : s[i] \notin {".", "+", " ", "=", ":"}

\* semver.parse(version).version, or null: v?MAJOR.MINOR.PATCH(+BUILD)?
\* The normalized version drops the leading v and the build metadata.
SemverParse(version) ==
    LET trimmed == Trim(version)
        body == IF trimmed # <<>> /\ Head(trimmed) = "v" THEN Tail(trimmed) ELSE trimmed
        plus == Split(body, "+")
        main == Split(plus[1], ".")
        buildOk == \/ Len(plus) = 1
                   \/ /\ Len(plus) = 2
                      /\ \A id \in Range(Split(plus[2], ".")) : IsBuildIdentifier(id)
    IN  IF Len(main) = 3 /\ (\A n \in Range(main) : IsNumericIdentifier(n)) /\ buildOk
        THEN plus[1]
        ELSE Null

SemverClean(version) == SemverParse(StripEqualsV(Trim(version)))

SemverValid(version) == IF version = Null THEN Null ELSE SemverParse(version)

----------------------------------------------------------------------------
(* getCommitSubjectVersion                                                 *)

\* The lines `git log -1 --pretty=%B` can print.
SubjectTexts == {
    <<"1", ".", "2", ".", "3">>,
    <<"v", "2", ".", "0", ".", "0">>,
    <<" ", "=", "v", "1", ".", "0", ".", "1", "0", "+", "b", " ">>,
    <<"f", "e", "a", "t", ":", " ", "x">>,
    <<"1", ".", "2">>,
    <<"0", "1", ".", "2", ".", "3">> }

VersionInit ==
    /\ vpc = "start"
    /\ subjectInput = <<>>
    /\ subjectLines = <<>>
    /\ scanIdx = 0
    /\ cleanVersion = Null
    /\ versionOutcome = Running

\* Lines 121-124: the command, `let cleanVersion = null`, and the in-place reverse
ReadSubject ==
    /\ vpc = "start"
    /\ \/ \E lines \in SeqsOf(SubjectTexts, 1, MaxLines) :
             /\ subjectInput' = lines
             /\ subjectLines' = Reverse(lines)
             /\ cleanVersion' = Null
             /\ scanIdx' = 1
             /\ vpc' = "scan"
             /\ versionOutcome' = versionOutcome
       \/ /\ versionOutcome' = ExceptionError("Could not get last commit subject")
          /\ vpc' = "done"
          /\ UNCHANGED <<subjectInput, subjectLines, cleanVersion, scanIdx>>
    /\ UNCHANGED <<prefixVars, updateVars>>

\* Mutant of ScanStep: a line that does not validate keeps the candidate
ScanStepKeepsCandidate(line) ==
    LET lineVersion == SemverClean(line)
    IN  IF SemverValid(lineVersion) # Null THEN lineVersion ELSE cleanVersion

\* Lines 125-126: the body of the forEach callback
ScanStep(line) ==
    LET lineVersion == SemverClean(line)
    IN  IF SemverValid(lineVersion) # Null THEN lineVersion ELSE Null

\* Lines 124-127: one iteration of the forEach
ScanLine ==
    /\ vpc = "scan"
    /\ scanIdx <= Len(subjectLines)
    /\ cleanVersion' = ScanStep(subjectLines[scanIdx])
    /\ scanIdx' = scanIdx + 1
    /\ UNCHANGED <<vpc, subjectInput, subjectLines, versionOutcome>>
    /\ UNCHANGED <<prefixVars, updateVars>>

\* Line 128
ReturnVersion ==
    /\ vpc = "scan"
    /\ scanIdx > Len(subjectLines)
    /\ versionOutcome' = Returned(cleanVersion)
    /\ vpc' = "done"
    /\ UNCHANGED <<subjectInput, subjectLines, scanIdx, cleanVersion>>
    /\ UNCHANGED <<prefixVars, updateVars>>

VersionNext ==
    \/ ReadSubject
    \/ ScanLine
    \/ ReturnVersion

----------------------------------------------------------------------------
(* JSONFileChanger.updateFiles and the edit-json-file object it drives.    *)

Str(s) == [t |-> "string", s |-> s, o |-> <<>>]
Num(s) == [t |-> "number", s |-> s, o |-> <<>>]
Undefined == [t |-> "undefined", s |-> <<>>, o |-> <<>>]
\* An object value: its entries, a sequence of <<property, value>>
Obj(entries) == [t |-> "object", s |-> <<>>, o |-> entries]
\* The object set-value creates along a dotted path (its entries lie
\* outside the properties of the model)
JsObject == Obj(<<>>)

version == <<"v", "e", "r", "s", "i", "o", "n">>
versn == <<"v", "e", "r", "s", "n">>
name == <<"n", "a", "m", "e">>

\* Line 9
defaultKeys == <<Str(version)>>

\* Mutant of isKeyValid: every defined key passes
isKeyValidAnyType(key) == key.t # "undefined"

\* Line 13
isKeyValid(key) == key.t = "string"

\* Line 21: the options object given to edit-json-file is {}, so autosave is off
AutosaveOption == FALSE

\* The relative paths of the configuration
Urls == {"package.json", "bower.json"}

\* The entries a keys list can hold (dot-free names, and a number)
KeyValues == {Str(version), Str(name), Str(versn), Num(<<"5">>)}

\* The values the properties of a file hold before the run
VersionValues == {Undefined, Str(<<"1", ".", "0", ".", "0">>), Str(name), Str(<<>>)}
NameValues == {Undefined, Num(<<"7">>), Obj(<< <<versn, Str(<<"2", ".", "0", ".", "0">>)>> >>)}

\* Top-level property names of the JSON objects of the model: the key names
\* and the first path segment of every string value.
PropNames == {k.s : k \in {x \in KeyValues : x.t = "string"}}
             \cup {Split(v.s, ".")[1] : v \in {x \in VersionValues : x.t = "string" /\ x.s # <<>>}}

EmptyObject == [p \in PropNames |-> Undefined]

\* A JSON object: property -> value, Undefined for a property that is
\* absent (or undefined in memory; JSON.stringify drops those).
FileContents == {[EmptyObject EXCEPT ![version] = v, ![name] = n] :
                    v \in VersionValues, n \in NameValues}

\* The file targets of the configuration: keys missing, empty or explicit
FileTargets == {[url |-> u, hasKeys |-> h, keys |-> k] :
                   u \in Urls, h \in BOOLEAN, k \in SeqsOf(KeyValues, 0, MaxKeys)}
               \ {t \in [url : Urls, hasKeys : {FALSE}, keys : SeqsOf(KeyValues, 0, MaxKeys)] :
                      t.keys # <<>>}

\* edit-json-file get(path): find-value on a dot-free path
JsonGet(obj, path) ==
    IF path.t = "string" /\ path.s \in DOMAIN obj THEN obj[path.s] ELSE Undefined

\* set-value(obj, prop, value): assigns along the dotted path; a path that
\* is not a string changes nothing.
SetValue(obj, prop, value) ==
    IF prop.t # "string" THEN obj
    ELSE LET keys == Split(prop.s, ".")
         IN  IF keys[1] \notin DOMAIN obj THEN obj
             ELSE IF Len(keys) = 1 THEN [obj EXCEPT ![keys[1]] = value]
             ELSE [obj EXCEPT ![keys[1]] = JsObject]

\* iterate-object: set-value for every entry of an object
RECURSIVE SetEntries(_, _)
SetEntries(obj, entries) ==
    IF entries = <<>> THEN obj
    ELSE SetEntries(SetValue(obj, Str(Head(entries)[1]), Head(entries)[2]), Tail(entries))

\* edit-json-file set(path, value): an object given as the path has each
\* of its entries set; any other path goes to set-value with the value.
JsonSet(obj, path, value) ==
    IF path.t = "object" THEN SetEntries(obj, path.o) ELSE SetValue(obj, path, value)

\* edit-json-file read(): the parsed file, or {} when it cannot be read
JsonRead(url) == IF exists[url] THEN disk[url] ELSE EmptyObject

InfoDefaultKeys(url) == [text |-> "Keys not specified", key |-> Undefined, url |-> url]
InfoInvalidKey(key) == [text |-> "Key is not valid", key |-> key, url |-> ""]
InvalidKeysError ==
    [kind |-> "ExceptionError", msg |-> "One or more keys are not valid",
     key |-> Undefined, url |-> ""]
KeyNotFoundError(key, url) ==
    [kind |-> "ExceptionError", msg |-> "Key was not found", key |-> key, url |-> url]
UpdateRunning == [kind |-> "none", msg |-> "", key |-> Undefined, url |-> ""]

UpdateInit ==
    /\ upc = "next"
    /\ nFiles \in 0..MaxFiles
    /\ fileIdx = 0
    /\ file = [url |-> "", hasKeys |-> FALSE, keys |-> <<>>]
    /\ fileKeys = <<>>
    /\ keyIdx = 0
    /\ data = EmptyObject
    /\ exists \in [Urls -> BOOLEAN]
    /\ disk \in [Urls -> FileContents]
    /\ \A u \in Urls : ~exists[u] => disk[u] = EmptyObject
    /\ diskBefore = EmptyObject
    /\ log = <<>>
    /\ reads = 0
    /\ sets = 0
    /\ saveCount = [i \in 1..MaxFiles |-> 0]
    /\ logMark = 0
    /\ thrown = 0
    /\ updateOutcome = UpdateRunning

\* Lines 20-27: the next element of filesData is opened and its keys chosen
OpenFile ==
    /\ upc = "next"
    /\ fileIdx < nFiles
    /\ \E target \in FileTargets :
          /\ file' = target
          /\ data' = JsonRead(target.url)
          /\ diskBefore' = disk[target.url]
          /\ IF ~target.hasKeys \/ Len(target.keys) = 0
             THEN /\ log' = Append(log, InfoDefaultKeys(target.url))
                  /\ fileKeys' = defaultKeys
             ELSE /\ log' = log
                  /\ fileKeys' = target.keys
    /\ fileIdx' = fileIdx + 1
    /\ logMark' = Len(log')
    /\ reads' = 0
    /\ sets' = 0
    /\ keyIdx' = 0
    /\ upc' = "validate"
    /\ UNCHANGED <<nFiles, disk, exists, saveCount, thrown, updateOutcome>>
    /\ UNCHANGED <<prefixVars, versionVars>>

\* Mutant of ValidateKeys: invalid keys are reported and the file is
\* skipped, the run going on with the next target instead of ending.
ValidateKeysSkipsFile ==
    /\ upc = "validate"
    /\ LET invalidKeys == SelectSeq(fileKeys, LAMBDA key : ~isKeyValid(key))
       IN  IF Len(invalidKeys) > 0
           THEN /\ log' = log \o [i \in 1..Len(invalidKeys) |-> InfoInvalidKey(invalidKeys[i])]
                /\ upc' = "next"
                /\ UNCHANGED <<keyIdx, updateOutcome, thrown>>
           ELSE /\ upc' = "keys"
                /\ keyIdx' = 1
                /\ UNCHANGED <<log, updateOutcome, thrown>>
    /\ UNCHANGED <<nFiles, fileIdx, file, fileKeys, data, disk, exists, diskBefore,
                   reads, sets, saveCount, logMark>>
    /\ UNCHANGED <<prefixVars, versionVars>>

\* Lines 29-33
ValidateKeys ==
    /\ upc = "validate"
    /\ LET invalidKeys == SelectSeq(fileKeys, LAMBDA key : ~isKeyValid(key))
       IN  IF Len(invalidKeys) > 0
           THEN /\ log' = log \o [i \in 1..Len(invalidKeys) |-> InfoInvalidKey(invalidKeys[i])]
                /\ updateOutcome' = InvalidKeysError
                /\ thrown' = thrown + 1
                /\ upc' = "failed"
                /\ keyIdx' = keyIdx
           ELSE /\ upc' = "keys"
                /\ keyIdx' = 1
                /\ UNCHANGED <<log, updateOutcome, thrown>>
    /\ UNCHANGED <<nFiles, fileIdx, file, fileKeys, data, disk, exists, diskBefore,
                   reads, sets, saveCount, logMark>>
    /\ UNCHANGED <<prefixVars, versionVars>>

\* Lines 35-42: one iteration of the per-key forEach
ProcessKey ==
    /\ upc = "keys"
    /\ keyIdx <= Len(fileKeys)
    /\ LET key == fileKeys[keyIdx]
           value == JsonGet(data, key)
       IN  /\ reads' = reads + 1
           /\ IF JsTruthy(value)
              THEN /\ data' = JsonSet(data, value, Undefined)
                   /\ sets' = sets + 1
                   /\ IF AutosaveOption
                      THEN /\ disk' = [disk EXCEPT ![file.url] = data']
                           /\ exists' = [exists EXCEPT ![file.url] = TRUE]
                           /\ saveCount' = [saveCount EXCEPT ![fileIdx] = @ + 1]
                      ELSE UNCHANGED <<disk, exists, saveCount>>
                   /\ keyIdx' = keyIdx + 1
                   /\ UNCHANGED <<upc, updateOutcome, thrown>>
              ELSE /\ updateOutcome' = KeyNotFoundError(key, file.url)
                   /\ thrown' = thrown + 1
                   /\ upc' = "failed"
                   /\ UNCHANGED <<data, sets, disk, exists, saveCount, keyIdx>>
    /\ UNCHANGED <<nFiles, fileIdx, file, fileKeys, diskBefore, log, logMark>>
    /\ UNCHANGED <<prefixVars, versionVars>>

\* Line 44
SaveFile ==
    /\ upc = "keys"
    /\ keyIdx > Len(fileKeys)
    /\ disk' = [disk EXCEPT ![file.url] = data]
    /\ exists' = [exists EXCEPT ![file.url] = TRUE]
    /\ saveCount' = [saveCount EXCEPT ![fileIdx] = @ + 1]
    /\ upc' = "next"
    /\ UNCHANGED <<nFiles, fileIdx, file, fileKeys, keyIdx, data, diskBefore, log,
                   reads, sets, logMark, thrown, updateOutcome>>
    /\ UNCHANGED <<prefixVars, versionVars>>

\* Line 45-46: the forEach over filesData is over
UpdateReturns ==
    /\ upc = "next"
    /\ fileIdx = nFiles
    /\ upc' = "done"
    /\ updateOutcome' = [kind |-> "return", msg |-> "", key |-> Undefined, url |-> ""]
    /\ UNCHANGED <<nFiles, fileIdx, file, fileKeys, keyIdx, data, disk, exists,
                   diskBefore, log, reads, sets, saveCount, logMark, thrown>>
    /\ UNCHANGED <<prefixVars, versionVars>>

UpdateNext ==
    \/ OpenFile
    \/ ValidateKeys
    \/ ProcessKey
    \/ SaveFile
    \/ UpdateReturns

----------------------------------------------------------------------------
(* Specifications: one per operation, the other operations idle.           *)

Init == PrefixInit /\ VersionInit /\ UpdateInit

Next == PrefixNext \/ VersionNext \/ UpdateNext

Spec == Init /\ [][Next]_vars

\* No file target and no file: the updater has nothing to do
UpdateIdle == UpdateInit /\ nFiles = 0 /\ (\A u \in Urls : ~exists[u])

PrefixSpecInit == PrefixInit /\ VersionInit /\ UpdateIdle

PrefixSpec == PrefixSpecInit /\ [][PrefixNext]_vars

VersionSpec == PrefixSpecInit /\ [][VersionNext]_vars

UpdateSpec == Init /\ [][UpdateNext]_vars

----------------------------------------------------------------------------
(* Properties of getLastMergedPrefix.                                      *)

\* The branches whose timestamp lookup was started: the candidates
Looked == {b \in BranchNames : pushState[b] # "none"}

\* The function went past line 92 and ended
GatherEnded == pc = "done" /\ mergedBranchNames # <<>>

HasSlash(branch) == \E i \in 1..Len(branch) : branch[i] = "/"

\* The text before the first "/" of a name that has one
BeforeFirstSlash(branch) ==
    LET first == CHOOSE i \in 1..Len(branch) :
                     branch[i] = "/" /\ \A j \in 1..(i - 1) : branch[j] # "/"
    IN  SubSeq(branch, 1, first - 1)

\* C1: every branch among the candidates the winner is taken from is
\* other than the current branch and has an empty diff against HEAD; a
\* branch whose diff is non-empty is never the winner.
C1_CandidatesAreClean ==
    GatherEnded =>
        \A i \in 1..Len(candidateBranches) :
            /\ candidateBranches[i].name # currentBranchName
            /\ cleanCheck[candidateBranches[i].name] # "false"

\* C2: when there is a candidate and every timestamp lookup succeeded, the
\* winner is a candidate no other candidate has a smaller timestamp than;
\* the function returns the text before the first "/" of the winner's
\* name, and ends in the ExceptionError "Could not extract prefix from
\* last merged branch" when that name has no "/".  (The candidates are the
\* branches whose lookup the function started.)
C2_WinnerIsEarliest ==
    (/\ GatherEnded
     /\ Looked # {}
     /\ \A b \in Looked : pushState[b] = "fulfilled")
    => /\ candidateBranches # <<>>
       /\ LET winner == candidateBranches[1].name
          IN  /\ winner \in Looked
              /\ \A b \in Looked : pushDate[winner] <= pushDate[b]
              /\ outcome =
                    IF HasSlash(winner)
                    THEN Returned(BeforeFirstSlash(winner))
                    ELSE ExceptionError("Could not extract prefix from last merged branch")

\* C2 witness: two candidates, listed latest first, and the earlier one won
C2_Witness ==
    /\ GatherEnded
    /\ outcome.kind = "return"
    /\ Len(candidateBranches) >= 2
    /\ candidateBranches[1].date < candidateBranches[2].date
    /\ \E i, j \in 1..Len(mergedBranchNames) :
          /\ i < j
          /\ mergedBranchNames[j] = candidateBranches[1].name
          /\ mergedBranchNames[i] = candidateBranches[2].name

\* C3: when no candidate remains after the current branch is excluded, the
\* function ends in the ExceptionError "Could not find a suitable merged
\* branch candidate".
C3_NoCandidateIsFatal ==
    (GatherEnded /\ Looked = {})
    => outcome = ExceptionError("Could not find a suitable merged branch candidate")

\* C10: when a clean check or a timestamp lookup failed, the function ends
\* in an ExceptionError and returns no prefix.
C10_AnyFailureAborts ==
    (/\ GatherEnded
     /\ \E b \in BranchNames : cleanCheck[b] = "rejected" \/ pushState[b] = "rejected")
    => outcome.kind = "ExceptionError"

----------------------------------------------------------------------------
(* Properties of getCommitSubjectVersion.                                  *)

IsSemverLine(line) == SemverValid(SemverClean(line)) # Null

VersionReturned == vpc = "done" /\ versionOutcome.kind = "return"

\* C4: the function returns the normalized version of the last line, in
\* original order, that is valid semver, and null only when no line is.
C4_LastValidLineWins ==
    VersionReturned =>
        LET valid == {i \in 1..Len(subjectInput) : IsSemverLine(subjectInput[i])}
        IN  versionOutcome.value =
                IF valid = {} THEN Null
                ELSE SemverClean(subjectInput[CHOOSE i \in valid : \A j \in valid : j <= i])

\* C5: the function returns what the first line in original order alone
\* decides: its normalized version when it is valid semver, null otherwise.
C5_FirstLineDecides ==
    VersionReturned =>
        versionOutcome.value =
            IF IsSemverLine(subjectInput[1]) THEN SemverClean(subjectInput[1]) ELSE Null

\* C5 witness: a later line is valid semver, the first is not, null returned
C5_Witness ==
    /\ VersionReturned
    /\ Len(subjectInput) >= 2
    /\ ~IsSemverLine(subjectInput[1])
    /\ \E i \in 2..Len(subjectInput) : IsSemverLine(subjectInput[i])
    /\ versionOutcome.value = Null

----------------------------------------------------------------------------
(* Properties of updateFiles.                                              *)

Opened == fileIdx >= 1

KeyIsString(i) == fileKeys[i].t = "string"

AllKeysStrings == \A i \in 1..Len(fileKeys) : KeyIsString(i)

\* The positions of the string keys the file did not hold when it was opened
MissingKeys == {i \in 1..Len(fileKeys) : KeyIsString(i) /\ diskBefore[fileKeys[i].s] = Undefined}

InvalidKeyPositions == {i \in 1..Len(fileKeys) : ~KeyIsString(i)}

NeverSaved == saveCount[fileIdx] = 0 /\ disk[file.url] = diskBefore

\* C6: a target whose keys are strings the file holds is processed
\* without a fatal error, and once the file is saved every key still has
\* the value it had.
C6_PresentKeysSurvive ==
    (Opened /\ AllKeysStrings /\ MissingKeys = {})
    => /\ upc # "failed"
       /\ saveCount[fileIdx] >= 1 =>
              \A i \in 1..Len(fileKeys) :
                  disk[file.url][fileKeys[i].s] = diskBefore[fileKeys[i].s]

\* C7: a target with a (string) key the file does not hold ends in a fatal
\* error that names the missing key and the path, and is never saved.
C7_MissingKeyNamed ==
    (Opened /\ AllKeysStrings /\ MissingKeys # {})
    => /\ NeverSaved
       /\ upc \in {"validate", "keys", "failed"}
       /\ upc = "failed" =>
              /\ updateOutcome.msg = "Key was not found"
              /\ updateOutcome.url = file.url
              /\ \E i \in MissingKeys : updateOutcome.key = fileKeys[i]

\* C8: a target with n >= 1 keys that are not strings gets exactly n
\* warning lines, one per invalid key in list order, then one fatal error,
\* and no key read, no set and no save.
C8_InvalidKeysReported ==
    (Opened /\ InvalidKeyPositions # {})
    => LET n == Cardinality(InvalidKeyPositions)
           nth(j) == CHOOSE i \in InvalidKeyPositions :
                         Cardinality({k \in InvalidKeyPositions : k <= i}) = j
       IN  /\ upc \in {"validate", "failed"}
           /\ reads = 0 /\ sets = 0 /\ NeverSaved
           /\ upc = "validate" => Len(log) = logMark /\ thrown = 0
           /\ upc = "failed" =>
                  /\ thrown = 1
                  /\ updateOutcome = InvalidKeysError
                  /\ Len(log) = logMark + n
                  /\ \A j \in 1..n :
                         log[logMark + j] = InfoInvalidKey(fileKeys[nth(j)])

\* C8 witness: a valid key before an invalid one, one warning, the error
C8_Witness ==
    /\ upc = "failed"
    /\ updateOutcome = InvalidKeysError
    /\ Len(fileKeys) >= 2
    /\ KeyIsString(1)
    /\ ~KeyIsString(2)
    /\ Len(log) = logMark + 1

SavedInOrder ==
    /\ \A j \in 1..MaxFiles : saveCount[j] <= 1
    /\ \A j \in 1..MaxFiles : j < fileIdx => saveCount[j] = 1
    /\ \A j \in 1..MaxFiles : j > fileIdx => saveCount[j] = 0
    /\ upc = "failed" => saveCount[fileIdx] = 0

NoRollback ==
    /\ \A j \in 1..MaxFiles : saveCount'[j] >= saveCount[j]
    /\ disk' # disk => saveCount'[fileIdx] = saveCount[fileIdx] + 1
    /\ upc = "failed" => UNCHANGED <<saveCount, disk, exists>>

\* C9: the targets are saved in list order, each before the next is
\* opened; at the first failure, at position i, every target before i has
\* been saved exactly once and stays saved, and target i and those after
\* it are never saved.
C9_SavedBeforeFailureStay == []SavedInOrder /\ [][NoRollback]_vars

\* C9 witness: the second target failed after the first was saved
C9_Witness ==
    /\ upc = "failed"
    /\ fileIdx = 2
    /\ saveCount[1] = 1
    /\ disk[file.url] = diskBefore

====
